---------------------------- MODULE Spec2Model ----------------------------
(***************************************************************************)
(* FusBuddy360 chat palette (palette.js): the markdown-subset renderer     *)
(* (parseMarkdownToHTML and its helpers) and the chat transcript           *)
(* controller (sendUserQuery, saveApiKey, fusionJavaScriptHandler.handle). *)
(*                                                                         *)
(* A JavaScript string is a sequence of one-character strings.  Two        *)
(* specifications share the module:                                        *)
(*   Spec        the palette session: UI events, bridge settlements and    *)
(*               inbound pushes, one event-loop task per action;           *)
(*   SpecRender  one call of parseMarkdownToHTML, one loop iteration per   *)
(*               action.                                                   *)
(***************************************************************************)
EXTENDS Integers, Sequences, FiniteSets, Bags, TLC

(***************************************************************************)
(* Bounds of the model.                                                    *)
(***************************************************************************)
\* lines of the text handed to one parseMarkdownToHTML call (SpecRender)
MaxLines == 3
\* the clock reads 0..MaxClock
MaxClock == 1
\* messages appended to the transcript after the greeting
MaxMsgs == 2
\* bridge calls that may be in flight together
MaxPending == 2

VARIABLES
    \* ---- palette session (Spec) ----
    transcript,     \* children of #messages: the Messages, in display order
    chatInput,      \* #chatInput.value
    sendDisabled,   \* #sendBtn.disabled
    status,         \* #status.textContent (which message it is)
    statusError,    \* #status has class "error"
    keyInput,       \* provider -> value of its API key input
    pending,        \* the bag of bridge calls adsk.fusionSendData has
                    \* issued and the bridge has not settled
    context,        \* #context.textContent
    imgSrc,         \* #screenshotPreview.src
    imgDisplay,     \* #screenshotPreview.style.display
    lastEvent,      \* the task that ran last (a handler, an edit) and how
                    \* it ended
    pc,             \* position inside the running sendUserQuery, or "idle"
    query,          \* the text of the running sendUserQuery
    now,            \* the clock as Date.now() last read it
    \* ---- one parseMarkdownToHTML call (SpecRender) ----
    rtext,          \* its argument
    lines,          \* text.split('\n')
    ri,             \* loop variable i (lines 1..ri are scanned)
    output,         \* the output array
    inParagraph,    \* inParagraph
    stepCounter,    \* stepCounter
    rids,           \* the step identifiers this call has given out
    rhtml,          \* what the call returned
    rpc             \* "loop" in the call, "done" once it returned, else "none"

sessionVars == <<transcript, chatInput, sendDisabled, status, statusError,
                 keyInput, pending, context, imgSrc, imgDisplay, lastEvent,
                 pc, query>>
renderVars == <<rtext, lines, ri, output, inParagraph, stepCounter, rids,
                rhtml, rpc>>
vars == <<sessionVars, renderVars, now>>

\* what the next reading of the clock may be: it does not run backwards
ClockReadings == now .. MaxClock

(***************************************************************************)
(* Characters and string helpers of the JavaScript runtime.                *)
(***************************************************************************)
Digits == {"0", "1", "2", "3", "4", "5", "6", "7", "8", "9"}
Letters == {"a", "b", "c", "d", "e", "f", "g", "h", "i", "j", "k", "l", "m",
            "n", "o", "p", "q", "r", "s", "t", "u", "v", "w", "x", "y", "z"}
\* \w of a regular expression
WordChars == Letters \cup Digits \cup {"_"}
\* \s of a regular expression, and what trim() strips
WhiteSpace == {" ", "\t", "\r", "\n"}

RECURSIVE TrimStart(_)
TrimStart(s) ==
    IF s # <<>> /\ Head(s) \in WhiteSpace THEN TrimStart(Tail(s)) ELSE s

RECURSIVE TrimEnd(_)
TrimEnd(s) ==
    IF s # <<>> /\ s[Len(s)] \in WhiteSpace
    THEN TrimEnd(SubSeq(s, 1, Len(s) - 1)) ELSE s

\* String.prototype.trim
Trim(s) == TrimEnd(TrimStart(s))

\* String.prototype.startsWith
StartsWith(s, p) == Len(s) >= Len(p) /\ SubSeq(s, 1, Len(p)) = p

\* String.prototype.substring(n): the string without its first n characters
Substring(s, n) == SubSeq(s, n + 1, Len(s))

\* the first index k..Len(s) whose character is in cs, 0 when there is none
RECURSIVE FirstOf(_, _, _)
FirstOf(s, cs, k) ==
    IF k > Len(s) THEN 0
    ELSE IF s[k] \in cs THEN k ELSE FirstOf(s, cs, k + 1)

\* String.prototype.split('\n')
RECURSIVE Split(_)
Split(s) ==
    LET k == FirstOf(s, {"\n"}, 1)
    IN  IF k = 0 THEN <<s>>
        ELSE <<SubSeq(s, 1, k - 1)>> \o Split(Substring(s, k))

\* Array.prototype.join('')
RECURSIVE Join(_)
Join(pieces) ==
    IF pieces = <<>> THEN <<>> ELSE Head(pieces) \o Join(Tail(pieces))

\* the decimal digits of a number, as a template literal prints it
RECURSIVE ToChars(_)
ToChars(n) ==
    LET d == <<"0", "1", "2", "3", "4", "5", "6", "7", "8", "9">>[(n % 10) + 1]
    IN  IF n < 10 THEN <<d>> ELSE ToChars(n \div 10) \o <<d>>

(***************************************************************************)
(* Markup the renderer emits.                                              *)
(***************************************************************************)
POpen == <<"<", "p", ">">>
PClose == <<"<", "/", "p", ">">>
Br == <<"<", "b", "r", ">">>
StrongOpen == <<"<", "s", "t", "r", "o", "n", "g", ">">>
StrongClose == <<"<", "/", "s", "t", "r", "o", "n", "g", ">">>
EmOpen == <<"<", "e", "m", ">">>
EmClose == <<"<", "/", "e", "m", ">">>
HOpen(level) == <<"<", "h", ToChars(level)[1], ">">>
HClose(level) == <<"<", "/", "h", ToChars(level)[1], ">">>
LabelOpen == <<"<", "l", "a", "b", "e", "l", " ", "c", "l", "a", "s", "s", "=", "\"", "s", "t", "e", "p", "-", "i", "t", "e", "m", "\"", ">", "<", "i", "n", "p", "u", "t", " ", "t", "y", "p", "e", "=", "\"", "c", "h", "e", "c", "k", "b", "o", "x", "\"", " ", "c", "l", "a", "s", "s", "=", "\"", "s", "t", "e", "p", "-", "c", "h", "e", "c", "k", "b", "o", "x", "\"", " ", "i", "d", "=", "\"">>
LabelMid == <<"\"", ">", "<", "s", "p", "a", "n", " ", "c", "l", "a", "s", "s", "=", "\"", "s", "t", "e", "p", "-", "t", "e", "x", "t", "\"", ">">>
LabelClose == <<"<", "/", "s", "p", "a", "n", ">", "<", "/", "l", "a", "b", "e", "l", ">">>

\* `step-${Date.now()}-${stepCounter}`
StepId(clock, counter) ==
    <<"s", "t", "e", "p", "-">> \o ToChars(clock) \o <<"-">> \o ToChars(counter)

(***************************************************************************)
(* escapeHTML: what div.textContent = text; div.innerHTML serialises.      *)
(***************************************************************************)
EscapeChar(c) ==
    CASE c = "&" -> <<"&", "a", "m", "p", ";">>
      [] c = "<" -> <<"&", "l", "t", ";">>
      [] c = ">" -> <<"&", "g", "t", ";">>
      [] OTHER -> <<c>>

RECURSIVE EscapeHTML(_)
EscapeHTML(s) ==
    IF s = <<>> THEN <<>> ELSE EscapeChar(Head(s)) \o EscapeHTML(Tail(s))

(***************************************************************************)
(* parseInlineMarkdown: escape, then four global regex replacements.       *)
(***************************************************************************)
\* \b between s[k-1] and s[k]: exactly one side is a word character
IsWordAt(s, k) == k >= 1 /\ k <= Len(s) /\ s[k] \in WordChars
WordBoundary(s, k) == IsWordAt(s, k - 1) # IsWordAt(s, k)

\* s.replace(/dd([^d]+)dd/g, '<strong>$1</strong>') from index i on
RECURSIVE ReplaceBold(_, _, _)
ReplaceBold(s, d, i) ==
    IF i > Len(s) THEN <<>>
    ELSE LET j == FirstOf(s, {d}, i + 2)
             hit == /\ i + 1 <= Len(s) /\ s[i] = d /\ s[i + 1] = d
                    /\ j > i + 2
                    /\ j + 1 <= Len(s) /\ s[j + 1] = d
         IN  IF hit
             THEN StrongOpen \o SubSeq(s, i + 2, j - 1) \o StrongClose
                  \o ReplaceBold(s, d, j + 2)
             ELSE <<s[i]>> \o ReplaceBold(s, d, i + 1)

\* s.replace(/\bd([^d\n]+?)d\b/g, '<em>$1</em>') from index i on
RECURSIVE ReplaceItalic(_, _, _)
ReplaceItalic(s, d, i) ==
    IF i > Len(s) THEN <<>>
    ELSE LET j == FirstOf(s, {d, "\n"}, i + 1)
             hit == /\ s[i] = d /\ WordBoundary(s, i)
                    /\ j > i + 1 /\ s[j] = d
                    /\ WordBoundary(s, j + 1)
         IN  IF hit
             THEN EmOpen \o SubSeq(s, i + 1, j - 1) \o EmClose
                  \o ReplaceItalic(s, d, j + 1)
             ELSE <<s[i]>> \o ReplaceItalic(s, d, i + 1)

parseInlineMarkdown(text) ==
    LET html0 == EscapeHTML(text)
        html1 == ReplaceBold(html0, "*", 1)
        html2 == ReplaceBold(html1, "_", 1)
        html3 == ReplaceItalic(html2, "*", 1)
        html4 == ReplaceItalic(html3, "_", 1)
    IN  html4

(***************************************************************************)
(* parseMarkdownToHTML: the classification of one trimmed line.            *)
(***************************************************************************)
\* line.startsWith('### ') / '## ' / '# ', tried in that order: the level,
\* 0 when the line is no heading
HeadingLevel(line) ==
    IF StartsWith(line, <<"#", "#", "#", " ">>) THEN 3
    ELSE IF StartsWith(line, <<"#", "#", " ">>) THEN 2
    ELSE IF StartsWith(line, <<"#", " ">>) THEN 1
    ELSE 0

\* the length of the longest prefix of s made of characters of cs
RECURSIVE SpanOf(_, _)
SpanOf(s, cs) ==
    IF s # <<>> /\ Head(s) \in cs THEN 1 + SpanOf(Tail(s), cs) ELSE 0

\* line.match(/^(\d+)[.)]\s+(.+)$/) on a trimmed line: whether it matches
\* and group 2.  \s+ is greedy; the line ends in no whitespace, so what
\* follows the whitespace is group 2, which '.' keeps free of line breaks.
NumberedMatch(line) ==
    LET nd == SpanOf(line, Digits)
        afterNum == Substring(line, nd)
        afterSep == Substring(afterNum, 1)
        ns == SpanOf(afterSep, WhiteSpace)
        rest == Substring(afterSep, ns)
    IN  [ok |-> /\ nd >= 1
                /\ afterNum # <<>> /\ Head(afterNum) \in {".", ")"}
                /\ ns >= 1
                /\ rest # <<>>
                /\ FirstOf(rest, {"\n", "\r"}, 1) = 0,
         text |-> rest]

(***************************************************************************)
(* parseMarkdownToHTML: one iteration of the loop over the lines.  st is   *)
(* the function's local state (output, inParagraph, stepCounter) and ids   *)
(* the identifiers given out so far; clock is what Date.now() returns.     *)
(***************************************************************************)
\* CloseParagraph with the flag left set: the slip of pushing '</p>' without
\* inParagraph = false
CloseParagraphKeepFlag(st) ==
    [st EXCEPT !.output = IF st.inParagraph THEN Append(@, PClose) ELSE @]

\* if (inParagraph) { output.push('</p>'); inParagraph = false; }
CloseParagraph(st) ==
    [st EXCEPT !.output = IF st.inParagraph THEN Append(@, PClose) ELSE @,
               !.inParagraph = FALSE]

HeadingLine(st, line, level) ==
    LET c == CloseParagraph(st)
    IN  [c EXCEPT !.output = Append(@,
            HOpen(level)
            \o EscapeHTML(parseInlineMarkdown(Substring(line, level + 1)))
            \o HClose(level))]

NumberedLine(st, stepText, clock) ==
    LET c == CloseParagraph(st)
        id == StepId(clock, st.stepCounter)
    IN  [c EXCEPT !.output = Append(@,
                      LabelOpen \o id \o LabelMid
                      \o parseInlineMarkdown(stepText) \o LabelClose),
                  !.stepCounter = @ + 1,
                  !.ids = Append(@, id)]

ParagraphLine(st, line) ==
    [st EXCEPT !.output = Append(@, IF st.inParagraph THEN Br ELSE POpen)
                          \o <<parseInlineMarkdown(line)>>,
               !.inParagraph = TRUE]

ScanLine(st, raw, clock) ==
    LET line == Trim(raw)
        level == HeadingLevel(line)
        numberedMatch == NumberedMatch(line)
    IN  IF level > 0 THEN HeadingLine(st, line, level)
        ELSE IF numberedMatch.ok
             THEN NumberedLine(st, numberedMatch.text, clock)
        ELSE IF line = <<>> THEN CloseParagraph(st)
        ELSE ParagraphLine(st, line)

\* the function's locals before the loop
ScanStart == [output |-> <<>>, inParagraph |-> FALSE, stepCounter |-> 0,
              ids |-> <<>>]

\* the whole loop, run within one reading of the clock
RECURSIVE ScanAll(_, _, _)
ScanAll(st, ls, clock) ==
    IF ls = <<>> THEN st
    ELSE ScanAll(ScanLine(st, Head(ls), clock), Tail(ls), clock)

\* parseMarkdownToHTML(text): the markup returned, and the step identifiers
\* it holds
parseMarkdownToHTML(text, clock) ==
    LET st == CloseParagraph(ScanAll(ScanStart, Split(text), clock))
    IN  [html |-> Join(st.output), ids |-> st.ids]

(***************************************************************************)
(* SpecRender: one call parseMarkdownToHTML(rtext), an action per loop     *)
(* iteration.  The argument is up to MaxLines lines, each one of           *)
(* SampleLines, joined by line breaks.                                     *)
(***************************************************************************)
\* blank lines, plain lines (padded, with a character to escape, with
\* emphasis), headings of every level, near-headings, numbered steps with
\* either separator, a near-step
SampleLines ==
    {<<>>,
     <<" ", " ">>,
     <<"a">>,
     <<" ", "b", "&", "c", " ">>,
     <<"a", "*", "b", "*", "c">>,
     <<"#", " ", "*", "*", "a", "*", "*">>,
     <<"#", "#", " ", "x", "<", "y">>,
     <<"#", "#", "#", " ", "_", "i", "_">>,
     <<"#", "a">>,
     <<"1", ".", " ", "s">>,
     <<"2", ")", " ", " ", "_", "_", "t", "_", "_">>,
     <<"1", ".", "a">>}

RECURSIVE JoinLines(_)
JoinLines(ls) ==
    IF Len(ls) = 1 THEN ls[1]
    ELSE ls[1] \o <<"\n">> \o JoinLines(Tail(ls))

RenderInputs ==
    {JoinLines(ls) : ls \in UNION {[1..n -> SampleLines] : n \in 1..MaxLines}}

\* the renderer is not running
RenderIdle ==
    /\ rtext = <<>> /\ lines = <<>> /\ ri = 0 /\ output = <<>>
    /\ inParagraph = FALSE /\ stepCounter = 0 /\ rids = <<>>
    /\ rhtml = <<>> /\ rpc = "none"

\* the function's locals as one record
RenderState ==
    [output |-> output, inParagraph |-> inParagraph,
     stepCounter |-> stepCounter, ids |-> rids]

SetRenderState(st) ==
    /\ output' = st.output
    /\ inParagraph' = st.inParagraph
    /\ stepCounter' = st.stepCounter
    /\ rids' = st.ids

\* whether the iteration for this line calls Date.now()
ReadsClock(raw) ==
    HeadingLevel(Trim(raw)) = 0 /\ NumberedMatch(Trim(raw)).ok

\* one iteration of for (let i = 0; i < lines.length; i++)
RenderLine ==
    /\ rpc = "loop"
    /\ ri < Len(lines)
    /\ \E t \in ClockReadings :
          /\ ReadsClock(lines[ri + 1]) \/ t = now
          /\ SetRenderState(ScanLine(RenderState, lines[ri + 1], t))
          /\ now' = t
    /\ ri' = ri + 1
    /\ UNCHANGED <<rtext, lines, rhtml, rpc, sessionVars>>

\* after the loop: close the open paragraph, return output.join('')
RenderReturn ==
    /\ rpc = "loop"
    /\ ri = Len(lines)
    /\ SetRenderState(CloseParagraph(RenderState))
    /\ rhtml' = Join(CloseParagraph(RenderState).output)
    /\ rpc' = "done"
    /\ UNCHANGED <<rtext, lines, ri, now, sessionVars>>

(***************************************************************************)
(* The palette session.  Strings that cross the bridge, and JSON.parse /   *)
(* JSON.stringify on them.                                                 *)
(***************************************************************************)
\* data of an inbound push: text that is no JSON, the JSON null, {text}
\* with two numbered steps, {screenshot: {base64}}
DataNotJson == <<"n", "o", "t", " ", "j", "s", "o", "n">>
DataNull == <<"n", "u", "l", "l">>
DataSteps == <<"{", "\"", "t", "e", "x", "t", "\"", ":", "\"", "1", ".", " ", "a", "\\", "n", "2", ")", " ", "b", "\"", "}">>
DataShot == <<"{", "\"", "s", "c", "r", "e", "e", "n", "s", "h", "o", "t", "\"", ":", "{", "\"", "b", "a", "s", "e", "6", "4", "\"", ":", "\"", "Q", "U", "J", "D", "\"", "}", "}">>
\* the data tried with each action of an inbound push
InboundData(action) ==
    CASE action = "assistantMessage" -> {DataNotJson, DataNull, DataSteps}
      [] action = "contextUpdate" -> {DataNotJson, DataShot}
      [] OTHER -> {<<>>}

StepsText == <<"1", ".", " ", "a", "\n", "2", ")", " ", "b">>
ShotBase64 == <<"Q", "U", "J", "D">>

\* JSON.parse(data): ok is FALSE where it throws a SyntaxError; else the
\* value, its own properties text and screenshot.base64 where it has them
JSONParse(data) ==
    CASE data = DataNull ->
           [ok |-> TRUE, type |-> "null", hasText |-> FALSE, text |-> <<>>,
            hasShot |-> FALSE, base64 |-> <<>>]
      [] data = DataSteps ->
           [ok |-> TRUE, type |-> "object", hasText |-> TRUE,
            text |-> StepsText, hasShot |-> FALSE, base64 |-> <<>>]
      [] data = DataShot ->
           [ok |-> TRUE, type |-> "object", hasText |-> FALSE, text |-> <<>>,
            hasShot |-> TRUE, base64 |-> ShotBase64]
      [] OTHER ->
           [ok |-> FALSE, type |-> "none", hasText |-> FALSE, text |-> <<>>,
            hasShot |-> FALSE, base64 |-> <<>>]

\* JSON.stringify(JSON.parse(data), null, 2)
JSONPretty(data) ==
    CASE data = DataSteps -> <<"{", "\n", " ", " ", "\"", "t", "e", "x", "t", "\"", ":", " ", "\"", "1", ".", " ", "a", "\\", "n", "2", ")", " ", "b", "\"", "\n", "}">>
      [] data = DataShot -> <<"{", "\n", " ", " ", "\"", "s", "c", "r", "e", "e", "n", "s", "h", "o", "t", "\"", ":", " ", "{", "\n", " ", " ", " ", " ", "\"", "b", "a", "s", "e", "6", "4", "\"", ":", " ", "\"", "Q", "U", "J", "D", "\"", "\n", " ", " ", "}", "\n", "}">>
      [] OTHER -> data

\* `${msg}` of a parsed object
ObjectToString == <<"[", "o", "b", "j", "e", "c", "t", " ", "O", "b", "j", "e", "c", "t", "]">>

\* `data:image/png;base64,${screenshot.base64}`
DataUrl(base64) == <<"d", "a", "t", "a", ":", "i", "m", "a", "g", "e", "/", "p", "n", "g", ";", "b", "a", "s", "e", "6", "4", ",">> \o base64

\* what the user may type into #chatInput
InputValues == {<<>>, <<" ", " ">>, <<" ", "a", " ">>}
Providers == {"openai", "gemini"}
\* the API key inputs the user types into, and what: the Gemini input
\* stays empty
KeyEntries == {<<"openai", <<" ", "k">>>>}
\* the action of an inbound push; "reload" is one the handler does not know
InboundActions == {"assistantMessage", "contextUpdate", "debugger", "reload"}

\* the status line's messages
StatusReady == "Ready."
StatusSending == "Sending to Fusion..."
StatusReceived == "Fusion received. (ok)"
StatusSendFailed == "Failed to send message to Fusion. See console."
StatusEnterKey(provider) ==
    IF provider = "openai" THEN "Enter a OpenAI API key before saving."
    ELSE "Enter a Gemini API key before saving."
StatusSaving(provider) ==
    IF provider = "openai" THEN "Saving OpenAI API key..."
    ELSE "Saving Gemini API key..."
StatusSaved == "API key saved."
StatusSaveFailed == "Failed to save API key. See console."
StatusHandlerError(action) ==
    IF action = "assistantMessage"
    THEN "Error handling message from Fusion: assistantMessage"
    ELSE "Error handling message from Fusion: contextUpdate"

\* setStatus(text, isError = false)
setStatus(text, isError) ==
    /\ status' = text
    /\ statusError' = isError

\* nowTime(): the clock (milliseconds) to the second
nowTime(clock) == clock \div 1000

\* appendMessage inserting the new message in front of the others
appendMessageOnTop(container, role, text, clock) ==
    LET rendered == parseMarkdownToHTML(text, clock)
    IN  <<[role |-> role,
           text |-> text,
           body |-> IF role = "assistant" THEN rendered.html ELSE text,
           ids |-> IF role = "assistant" THEN rendered.ids ELSE <<>>,
           who |-> IF role = "user" THEN "You" ELSE "FusBuddy360",
           time |-> nowTime(clock)]>> \o container

\* appendMessage(role, text): the container's children after it.  An
\* assistant's text goes through parseMarkdownToHTML into innerHTML, a
\* user's into textContent as it is.
appendMessage(container, role, text, clock) ==
    LET rendered == parseMarkdownToHTML(text, clock)
    IN  Append(container,
               [role |-> role,
                text |-> text,
                body |-> IF role = "assistant" THEN rendered.html ELSE text,
                ids |-> IF role = "assistant" THEN rendered.ids ELSE <<>>,
                who |-> IF role = "user" THEN "You" ELSE "FusBuddy360",
                time |-> nowTime(clock)])

\* the greeting the DOMContentLoaded listener appends (its first word; the
\* rest of the line is plain text as well)
Greeting == <<"H", "i">>

Event(op, name, data, outcome) ==
    [op |-> op, name |-> name, data |-> data, outcome |-> outcome]

\* the state the DOMContentLoaded listener leaves
SessionInit ==
    /\ transcript = appendMessage(<<>>, "assistant", Greeting, 0)
    /\ chatInput = <<>>
    /\ sendDisabled = FALSE
    /\ status = StatusReady
    /\ statusError = FALSE
    /\ keyInput = [p \in Providers |-> <<>>]
    /\ pending = EmptyBag
    /\ context = <<>>
    /\ imgSrc = <<>>
    /\ imgDisplay = "none"
    /\ lastEvent = Event("load", "DOMContentLoaded", <<>>, "")
    /\ pc = "idle"
    /\ query = <<>>

(***************************************************************************)
(* sendUserQuery.  The handler runs in three steps, no other task between  *)
(* them (pc): append and clear, disable and set the status, call the       *)
(* bridge and suspend at the await.                                        *)
(***************************************************************************)
\* QueryText without the trim()
QueryTextUntrimmed(value) == value

\* const text = (input.value || "").trim()
QueryText(value) == Trim(value)

\* a call adsk.fusionSendData(action, JSON.stringify(payload)) in flight
Call(action, provider, text) ==
    [action |-> action, provider |-> provider, text |-> text]

\* how many userQuery calls are in flight
UserQueries ==
    LET calls == {c \in BagToSet(pending) : c.action = "userQuery"}
    IN  BagCardinality([c \in calls |-> pending[c]])

\* if (!text) return; appendMessage("user", text); input.value = ""
SendUserQuery(op) ==
    /\ pc = "idle"
    /\ LET text == QueryText(chatInput)
       IN  IF text = <<>>
           THEN /\ lastEvent' = Event(op, "sendUserQuery", text, "returned")
                /\ UNCHANGED <<transcript, chatInput, pc, query>>
           ELSE /\ Len(transcript) < 1 + MaxMsgs
                /\ BagCardinality(pending) < MaxPending
                /\ transcript' = appendMessage(transcript, "user", text, now)
                /\ chatInput' = <<>>
                /\ query' = text
                /\ pc' = "disable"
                /\ lastEvent' = Event(op, "sendUserQuery", text, "running")
    /\ UNCHANGED <<sendDisabled, status, statusError, keyInput, pending,
                   context, imgSrc, imgDisplay, now, renderVars>>

\* the click listener of #sendBtn: a disabled button fires no click
ClickSend ==
    /\ ~sendDisabled
    /\ SendUserQuery("click")

\* the keydown listener of #chatInput, for Enter without Shift
PressEnter == SendUserQuery("enter")

\* sendBtn.disabled = true; setStatus("Sending to Fusion…")
SendDisable ==
    /\ pc = "disable"
    /\ sendDisabled' = TRUE
    /\ setStatus(StatusSending, FALSE)
    /\ pc' = "call"
    /\ UNCHANGED <<transcript, chatInput, keyInput, pending, context, imgSrc,
                   imgDisplay, lastEvent, query, now, renderVars>>

\* UserQueryResolved without its setStatus
UserQueryResolvedSilent ==
    /\ UNCHANGED <<status, statusError>>
    /\ sendDisabled' = FALSE

\* the await resumed with a result: the rest of the try block, then finally
UserQueryResolved ==
    /\ setStatus(StatusReceived, FALSE)
    /\ sendDisabled' = FALSE

\* UserQueryRejected with the re-enabling at the end of the try block
\* instead of in a finally
UserQueryRejectedNoFinally ==
    /\ setStatus(StatusSendFailed, TRUE)
    /\ UNCHANGED sendDisabled

\* the call threw or its promise was rejected: catch, then finally
UserQueryRejected ==
    /\ setStatus(StatusSendFailed, TRUE)
    /\ sendDisabled' = FALSE

\* adsk.fusionSendData("userQuery", ...) returns a promise and the function
\* suspends at the await
SendCall ==
    /\ pc = "call"
    /\ pending' = pending (+) SetToBag({Call("userQuery", "", query)})
    /\ pc' = "idle"
    /\ query' = <<>>
    /\ lastEvent' = [lastEvent EXCEPT !.outcome = "issued"]
    /\ UNCHANGED <<transcript, chatInput, sendDisabled, status, statusError,
                   keyInput, context, imgSrc, imgDisplay, now, renderVars>>

\* adsk.fusionSendData throws at once
SendThrows ==
    /\ pc = "call"
    /\ UserQueryRejected
    /\ pc' = "idle"
    /\ query' = <<>>
    /\ lastEvent' = [lastEvent EXCEPT !.outcome = "threw"]
    /\ UNCHANGED <<transcript, chatInput, keyInput, pending, context, imgSrc,
                   imgDisplay, now, renderVars>>

\* the bridge settles a userQuery call and sendUserQuery runs to its end
SettleUserQuery(call, resolved) ==
    /\ pc = "idle"
    /\ call.action = "userQuery"
    /\ pending' = pending (-) SetToBag({call})
    /\ IF resolved THEN UserQueryResolved ELSE UserQueryRejected
    /\ lastEvent' = Event("settle", "userQuery", call.text,
                          IF resolved THEN "resolved" ELSE "rejected")
    /\ UNCHANGED <<transcript, chatInput, keyInput, context, imgSrc,
                   imgDisplay, pc, query, now, renderVars>>

(***************************************************************************)
(* saveApiKey(provider).                                                   *)
(***************************************************************************)
\* what the bridge may answer a saveApiKey call with
SaveResults == {"", "Key stored."}

SaveApiKey(provider, throws) ==
    /\ pc = "idle"
    /\ LET key == Trim(keyInput[provider])
       IN  IF key = <<>>
           THEN /\ ~throws
                /\ setStatus(StatusEnterKey(provider), TRUE)
                /\ lastEvent' = Event("saveApiKey", provider, key, "returned")
                /\ UNCHANGED pending
           ELSE IF throws
           THEN /\ setStatus(StatusSaveFailed, TRUE)
                /\ lastEvent' = Event("saveApiKey", provider, key, "threw")
                /\ UNCHANGED pending
           ELSE /\ BagCardinality(pending) < MaxPending
                /\ setStatus(StatusSaving(provider), FALSE)
                /\ pending' =
                       pending (+) SetToBag({Call("saveApiKey", provider, key)})
                /\ lastEvent' = Event("saveApiKey", provider, key, "issued")
    /\ UNCHANGED <<transcript, chatInput, sendDisabled, keyInput, context,
                   imgSrc, imgDisplay, pc, query, now, renderVars>>

\* the bridge settles a saveApiKey call: setStatus(result || "API key
\* saved."), the input cleared; or the catch block
SettleSaveApiKey(call, resolved, result) ==
    /\ pc = "idle"
    /\ call.action = "saveApiKey"
    /\ pending' = pending (-) SetToBag({call})
    /\ IF resolved
       THEN /\ setStatus(IF result = "" THEN StatusSaved ELSE result, FALSE)
            /\ keyInput' = [keyInput EXCEPT ![call.provider] = <<>>]
       ELSE /\ setStatus(StatusSaveFailed, TRUE)
            /\ UNCHANGED keyInput
    /\ lastEvent' = Event("settle", "saveApiKey", call.text,
                          IF resolved THEN "resolved" ELSE "rejected")
    /\ UNCHANGED <<transcript, chatInput, sendDisabled, context, imgSrc,
                   imgDisplay, pc, query, now, renderVars>>

(***************************************************************************)
(* fusionJavaScriptHandler.handle(action, data).                           *)
(***************************************************************************)
\* updateContext returning from its first catch block, the preview untouched
updateContextEarlyReturn(jsonString) ==
    LET obj == JSONParse(jsonString)
    IN  /\ context' = IF obj.ok THEN JSONPretty(jsonString) ELSE jsonString
        /\ IF obj.ok /\ obj.hasShot /\ obj.base64 # <<>>
           THEN /\ imgSrc' = DataUrl(obj.base64)
                /\ imgDisplay' = "block"
           ELSE IF obj.ok
           THEN /\ imgSrc' = <<>>
                /\ imgDisplay' = "none"
           ELSE UNCHANGED <<imgSrc, imgDisplay>>

\* updateContext(jsonString): the context view, then the screenshot preview
updateContext(jsonString) ==
    LET obj == JSONParse(jsonString)
    IN  /\ context' = IF obj.ok THEN JSONPretty(jsonString) ELSE jsonString
        /\ IF obj.ok /\ obj.hasShot /\ obj.base64 # <<>>
           THEN /\ imgSrc' = DataUrl(obj.base64)
                /\ imgDisplay' = "block"
           ELSE /\ imgSrc' = <<>>
                /\ imgDisplay' = "none"

\* the assistantMessage branch, with the catch block it may end in: msg.text
\* of null throws as JSON.parse of text that is no JSON does
HandleAssistantMessage(data) ==
    LET msg == JSONParse(data)
    IN  IF msg.ok /\ msg.type # "null"
        THEN /\ Len(transcript) < 1 + MaxMsgs
             /\ \E t \in ClockReadings :
                   /\ transcript' = appendMessage(transcript, "assistant",
                          IF msg.hasText THEN msg.text ELSE ObjectToString, t)
                   /\ now' = t
             /\ setStatus(StatusReady, FALSE)
        ELSE /\ setStatus(StatusHandlerError("assistantMessage"), TRUE)
             /\ UNCHANGED <<transcript, now>>

Handle(action, data) ==
    /\ pc = "idle"
    /\ CASE action = "assistantMessage" ->
              /\ HandleAssistantMessage(data)
              /\ UNCHANGED <<context, imgSrc, imgDisplay>>
         [] action = "contextUpdate" ->
              /\ updateContext(data)
              /\ UNCHANGED <<transcript, status, statusError, now>>
         [] OTHER ->
              UNCHANGED <<transcript, status, statusError, context, imgSrc,
                          imgDisplay, now>>
    /\ lastEvent' = Event("handle", action, data,
                          IF action \in {"assistantMessage", "contextUpdate",
                                         "debugger"}
                          THEN "OK" ELSE "Unexpected command type: reload")
    /\ UNCHANGED <<chatInput, sendDisabled, keyInput, pending, pc, query,
                   renderVars>>

(***************************************************************************)
(* The user's edits.                                                       *)
(***************************************************************************)
TypeInput(value) ==
    /\ pc = "idle"
    /\ value # chatInput
    /\ chatInput' = value
    /\ lastEvent' = Event("input", "chatInput", <<>>, "")
    /\ UNCHANGED <<transcript, sendDisabled, status, statusError, keyInput,
                   pending, context, imgSrc, imgDisplay, pc, query, now,
                   renderVars>>

TypeKey(provider, value) ==
    /\ pc = "idle"
    /\ value # keyInput[provider]
    /\ keyInput' = [keyInput EXCEPT ![provider] = value]
    /\ lastEvent' = Event("input", provider, <<>>, "")
    /\ UNCHANGED <<transcript, chatInput, sendDisabled, status, statusError,
                   pending, context, imgSrc, imgDisplay, pc, query, now,
                   renderVars>>

(***************************************************************************)
(* The specifications.                                                     *)
(***************************************************************************)
Init ==
    /\ SessionInit
    /\ RenderIdle
    /\ now = 0

Next ==
    \/ ClickSend
    \/ PressEnter
    \/ SendDisable
    \/ SendCall
    \/ SendThrows
    \/ \E c \in BagToSet(pending), resolved \in BOOLEAN :
          SettleUserQuery(c, resolved)
    \/ \E p \in Providers, throws \in BOOLEAN : SaveApiKey(p, throws)
    \/ \E c \in BagToSet(pending), resolved \in BOOLEAN, r \in SaveResults :
          SettleSaveApiKey(c, resolved, r)
    \/ \E a \in InboundActions : \E d \in InboundData(a) : Handle(a, d)
    \/ \E v \in InputValues : TypeInput(v)
    \/ \E e \in KeyEntries : TypeKey(e[1], e[2])

Spec == Init /\ [][Next]_vars

InitRender ==
    /\ SessionInit
    /\ now = 0
    /\ rtext \in RenderInputs
    /\ lines = Split(rtext)
    /\ ri = 0
    /\ output = ScanStart.output
    /\ inParagraph = ScanStart.inParagraph
    /\ stepCounter = ScanStart.stepCounter
    /\ rids = ScanStart.ids
    /\ rhtml = <<>>
    /\ rpc = "loop"

NextRender ==
    \/ RenderLine
    \/ RenderReturn

SpecRender == InitRender /\ [][NextRender]_vars

(***************************************************************************)
(* Properties of the renderer (SpecRender).                                *)
(***************************************************************************)
\* the last line the loop has scanned, trimmed
ScannedLine == Trim(lines[ri])

\* C9: a heading line's remainder is run through the same inline-span
\* parsing as paragraph text: the Heading emitted for a line "# ", "## " or
\* "### " plus text is the heading's tags around parseInlineMarkdown of the
\* text, its emphasis live markup and every literal character escaped once.
C9_HeadingInlineParsed ==
    (rpc = "loop" /\ ri >= 1 /\ HeadingLevel(ScannedLine) > 0)
    => LET level == HeadingLevel(ScannedLine)
       IN  output[Len(output)] =
               HOpen(level)
               \o parseInlineMarkdown(Substring(ScannedLine, level + 1))
               \o HClose(level)

\* a Heading or a StepItem, as a piece of the output
IsBlockPiece(x) ==
    \/ \E level \in 1..3 : StartsWith(x, HOpen(level))
    \/ StartsWith(x, LabelOpen)

\* The output array read piece by piece, as the paragraph state it ends in:
\* 0 no paragraph open, 2 a paragraph just opened or continued by a line
\* break (content must follow), 1 a paragraph open after content; -1 once a
\* piece stands where it may not.  '<p>' and a Heading or StepItem only at
\* 0, content only at 2, '<br>' and '</p>' only at 1.
RECURSIVE ParagraphState(_, _)
ParagraphState(pieces, d) ==
    IF pieces = <<>> \/ d = -1 THEN d
    ELSE LET x == Head(pieces)
             nd == CASE x = POpen -> IF d = 0 THEN 2 ELSE -1
                      [] x = PClose -> IF d = 1 THEN 0 ELSE -1
                      [] x = Br -> IF d = 1 THEN 2 ELSE -1
                      [] IsBlockPiece(x) -> IF d = 0 THEN 0 ELSE -1
                      [] OTHER -> IF d = 2 THEN 1 ELSE -1
         IN  ParagraphState(Tail(pieces), nd)

ParagraphsWellFormed ==
    /\ ParagraphState(output, 0) = (IF inParagraph THEN 1 ELSE 0)
    /\ rpc = "done" => ~inParagraph /\ rhtml = Join(output)

\* what one step of the scan adds to the output, by the kind of its line
ParagraphStep ==
    LET line == Trim(lines[ri + 1])
        closing == IF inParagraph THEN <<PClose>> ELSE <<>>
        added == SubSeq(output', Len(output) + 1, Len(output'))
        isHeading == \E m \in {<<"#", " ">>, <<"#", "#", " ">>,
                               <<"#", "#", "#", " ">>} : StartsWith(line, m)
        isStep == NumberedMatch(line).ok
    IN  /\ SubSeq(output', 1, Len(output)) = output
        /\ IF ri' = ri + 1
           THEN IF isHeading \/ isStep
                THEN /\ Len(added) = Len(closing) + 1
                     /\ SubSeq(added, 1, Len(closing)) = closing
                     /\ IsBlockPiece(added[Len(added)])
                     /\ ~inParagraph'
                ELSE IF line = <<>>
                THEN added = closing /\ ~inParagraph'
                ELSE /\ Len(added) = 2
                     /\ added[1] = (IF inParagraph THEN Br ELSE POpen)
                     /\ added[2] \notin {POpen, PClose, Br}
                     /\ ~IsBlockPiece(added[2])
                     /\ inParagraph'
           ELSE IF rpc' = "done"
                THEN added = closing /\ ~inParagraph'
                ELSE added = <<>> /\ inParagraph' = inParagraph

\* C10: the line scan keeps paragraphs well-formed: a Paragraph is opened
\* only by a plain line when none is open, closed by the next blank line,
\* heading, numbered step or the end of input, its lines are joined by one
\* line break each, a blank line with no Paragraph open emits nothing, and
\* no Heading or StepItem is emitted inside an open Paragraph, so that the
\* open and close markers alternate and are balanced at the end.
C10_ParagraphsWellFormed ==
    [](ParagraphsWellFormed) /\ [][ParagraphStep]_vars

\* a returned call whose output joins two lines with a line break and
\* closes a paragraph in front of a Heading or StepItem
C10_Witness ==
    /\ rpc = "done"
    /\ \E k \in DOMAIN output : output[k] = Br
    /\ \E k \in 1 .. Len(output) - 1 :
          output[k] = PClose /\ IsBlockPiece(output[k + 1])

(***************************************************************************)
(* Properties of the palette session (Spec).                               *)
(***************************************************************************)
\* what the last task was
Submitted == lastEvent.op \in {"click", "enter"}
Settled(action, outcome) ==
    /\ lastEvent.op = "settle"
    /\ lastEvent.name = action
    /\ lastEvent.outcome = outcome
Handled(action) == lastEvent.op = "handle" /\ lastEvent.name = action
SendThrew == Submitted /\ lastEvent.outcome = "threw"

\* empty or whitespace-only
IsBlank(s) == \A k \in DOMAIN s : s[k] \in WhiteSpace

\* C1: duplicate concurrent submissions are prevented: under any
\* interleaving of send-button clicks, Enter keys and bridge settlements at
\* most one userQuery bridge call is in flight.
C1_OneUserQueryInFlight == UserQueries <= 1

\* C2: the send button is disabled before the bridge call is issued, it is
\* enabled again whenever the call settles, resolved or rejected (or the
\* call throws), and it is never disabled while no userQuery is in flight.
C2_SendButtonReleased ==
    /\ pc = "call" => sendDisabled
    /\ (Settled("userQuery", "resolved") \/ Settled("userQuery", "rejected")
        \/ SendThrew) => ~sendDisabled
    /\ (pc = "idle" /\ UserQueries = 0) => ~sendDisabled

\* a userQuery call was rejected, none is in flight and the button is enabled
C2_Witness ==
    /\ Settled("userQuery", "rejected")
    /\ UserQueries = 0
    /\ ~sendDisabled

\* C3: an assistantMessage push whose data is no valid JSON is displayed as
\* raw text: the transcript ends with an assistant Message of that data.
C3_MalformedAssistantShown ==
    (Handled("assistantMessage") /\ ~JSONParse(lastEvent.data).ok)
    => /\ transcript[Len(transcript)].role = "assistant"
       /\ transcript[Len(transcript)].text = lastEvent.data

\* the step identifiers of all the StepItems in the transcript
RECURSIVE StepIds(_)
StepIds(messages) ==
    IF messages = <<>> THEN <<>>
    ELSE Head(messages).ids \o StepIds(Tail(messages))

\* C4: no two StepItems rendered during one session have the same
\* identifier.
C4_StepIdsUnique ==
    LET ids == StepIds(transcript)
    IN  \A i, j \in DOMAIN ids : i # j => ids[i] # ids[j]

\* C5: a submit with empty or whitespace-only input is a no-op: transcript,
\* input buffer, status and send button stay as they are and no bridge call
\* is issued.
C5_BlankSubmitIsNoOp ==
    [][(pc = "idle" /\ lastEvent'.op \in {"click", "enter"}
        /\ IsBlank(chatInput))
       => /\ UNCHANGED <<transcript, chatInput, status, statusError,
                         sendDisabled, pending>>
          /\ pc' = "idle"
          /\ lastEvent'.outcome = "returned"]_vars

\* a submit has returned at once and the whitespace is still in the input
C5_Witness ==
    /\ Submitted
    /\ lastEvent.outcome = "returned"
    /\ chatInput = <<" ", " ">>

\* C6 as stated: the status is "sending" from a non-empty submit until its
\* bridge call settles, then "ready" (no error) if the call succeeded and
\* "error" if it failed, and it is never "sending" with no userQuery call in
\* flight, whatever pushes and saveApiKey calls come in between.
C6_SendingUntilSettled ==
    /\ (pc = "idle" /\ UserQueries > 0) => status = StatusSending
    /\ (pc = "idle" /\ UserQueries = 0) => status # StatusSending
    /\ Settled("userQuery", "resolved")
       => status # StatusSending /\ ~statusError
    /\ Settled("userQuery", "rejected") => statusError

\* C6 as amended: a non-empty submit sets the status to "sending"; the
\* settlement of a userQuery call sets it to "Fusion received" (no error) if
\* the call succeeded and to the send failure (an error) if it failed; and
\* it is never "sending" with no userQuery call in flight.
C6_StatusFollowsSend ==
    /\ pc = "call" => status = StatusSending /\ ~statusError
    /\ (Submitted /\ lastEvent.outcome = "issued")
       => status = StatusSending /\ ~statusError
    /\ Settled("userQuery", "resolved")
       => status = StatusReceived /\ ~statusError
    /\ (Settled("userQuery", "rejected") \/ SendThrew)
       => status = StatusSendFailed /\ statusError
    /\ (pc = "idle" /\ UserQueries = 0) => status # StatusSending

\* the only userQuery call in flight has resolved
C6_Witness ==
    /\ Settled("userQuery", "resolved")
    /\ UserQueries = 0
    /\ status = StatusReceived

\* one step of the session, as the transcript sees it
TranscriptStep ==
    LET n == Len(transcript)
        accepted == /\ JSONParse(lastEvent'.data).ok
                    /\ JSONParse(lastEvent'.data).type # "null"
    IN  \* nothing removed, reordered or edited; at most one Message added
        /\ Len(transcript') \in {n, n + 1}
        /\ SubSeq(transcript', 1, n) = transcript
        \* an accepted submit adds the user Message, its call not yet issued
        /\ (pc = "idle" /\ pc' = "disable")
           => /\ Len(transcript') = n + 1
              /\ transcript'[n + 1].role = "user"
              /\ transcript'[n + 1].text = Trim(chatInput)
              /\ transcript'[n + 1].body = Trim(chatInput)
              /\ pending' = pending
        \* the call is issued with the user Message already at the end
        /\ (pc = "call" /\ pending' # pending)
           => /\ transcript' = transcript
              /\ transcript[n].role = "user"
              /\ pending' = pending (+) SetToBag(
                                {Call("userQuery", "", transcript[n].text)})
        \* an accepted assistant push adds the assistant Message
        /\ (pc = "idle" /\ lastEvent'.op = "handle"
            /\ lastEvent'.name = "assistantMessage" /\ accepted)
           => /\ Len(transcript') = n + 1
              /\ transcript'[n + 1].role = "assistant"
        \* nothing else adds a Message
        /\ Len(transcript') = n + 1
           => \/ pc = "idle" /\ pc' = "disable"
              \/ lastEvent'.op = "handle" /\ lastEvent'.name = "assistantMessage"

\* C7: the transcript is append-only: before each operation it is a prefix
\* of what it is after; an accepted submit or assistant push appends one
\* Message at the end, the user Message before its bridge call is issued.
C7_TranscriptAppendOnly == [][TranscriptStep]_vars

\* greeting, a user Message whose call is in flight, an assistant Message
C7_Witness ==
    /\ Len(transcript) = 3
    /\ transcript[2].role = "user"
    /\ transcript[3].role = "assistant"
    /\ UserQueries > 0

\* C8: a context update whose text is no JSON shows the text as it is: the
\* handler returns "OK", the preview is hidden, and status, transcript and
\* send button stay as they are.
C8_RawContextShown ==
    /\ []((Handled("contextUpdate") /\ ~JSONParse(lastEvent.data).ok)
          => /\ context = lastEvent.data
             /\ imgDisplay = "none"
             /\ imgSrc = <<>>
             /\ lastEvent.outcome = "OK")
    /\ [][(lastEvent'.op = "handle" /\ lastEvent'.name = "contextUpdate"
           /\ ~JSONParse(lastEvent'.data).ok)
          => UNCHANGED <<transcript, sendDisabled, status, statusError,
                         pending>>]_vars

\* text that is no JSON is in the context view, after an error status that
\* the update has left alone
C8_Witness ==
    /\ Handled("contextUpdate")
    /\ context = DataNotJson
    /\ imgDisplay = "none"
    /\ statusError
    /\ sendDisabled

=============================================================================
